---- MODULE Spec2Model ----
(***************************************************************************)
(* exact-openapi-gen: extraction of endpoint models from documentation     *)
(* pages (src/src/acquisition.rs), the driver (src/src/main.rs) and the    *)
(* synthesis of the OpenAPI document (src/src/transform.rs).               *)
(*                                                                         *)
(* Text is a sequence of atoms.  Descriptions are sequences of characters  *)
(* (trim works on them); endpoint names, uris and reference paths are      *)
(* sequences of tokens, so that format!() is concatenation and             *)
(* str::contains is a search for a token.  Attribute values that the       *)
(* program only compares or copies are TLA+ strings.  Option<T> is a       *)
(* sequence of length at most one, a BTreeMap is a function on its key     *)
(* set (its iteration order is the order of the keys, so two maps with     *)
(* the same entries are the same value).                                   *)
(***************************************************************************)
EXTENDS Integers, Sequences, FiniteSets, TLC

VARIABLES
    pages,            \* the detail pages behind the urls of the run, in order
    overflow_checks,  \* whether the build checks integer overflow (debug) or wraps (release)
    pc,               \* position of main: "fetch", "synth", "done", "reordered", "aborted"
    next_page,        \* index of the next page main fetches
    outcomes,         \* what fetch_endpoint_details returned for each page fetched so far
    row_results,      \* per page fetched, what Property::try_from returned for each row it was given
    endpoints,        \* the Vec<EndpointDetails> collected for build_spec
    spec,             \* Some(document) once build_spec has returned
    reordered,        \* the collection as handed to build_spec a second time
    respec,           \* Some(document) of that second synthesis
    links,            \* the <a> elements of the overview page, in document order
    urls,             \* Some(urls) once fetch_endpoint_urls has returned
    data_types,       \* data-type tokens handed to the EdmType parser, in order
    edm_types,        \* what the parser returned for each token parsed so far
    openapi_types     \* what the type mapper returned for each parse result so far

vars == <<pages, overflow_checks, pc, next_page, outcomes, row_results, endpoints, spec, reordered, respec,
          links, urls, data_types, edm_types, openapi_types>>

-----------------------------------------------------------------------------
(* Bounds of the model *)

MaxRows == 2
MaxChildren == 2
MaxControls == 1
MaxPages == 2
MaxProps == 2
MaxEndpoints == 2
UsizeBits == 16
MaxLinks == 3
MaxTypes == 2

-----------------------------------------------------------------------------
(* Option, Vec and BTreeMap *)

None == <<>>
Some(x) == <<x>>

Contains(vec, x) == \E i \in DOMAIN vec : vec[i] = x

ToSet(vec) == {vec[i] : i \in DOMAIN vec}

Map(vec, F(_)) == [i \in 1..Len(vec) |-> F(vec[i])]

EmptyMap == <<>>

Insert(m, k, v) == [x \in (DOMAIN m) \cup {k} |-> IF x = k THEN v ELSE m[x]]

\* Iterator::nth on a Vec: the element at zero-based position k, if any
Nth(vec, k) == IF k + 1 <= Len(vec) THEN Some(vec[k + 1]) ELSE None

\* Iterator::skip(n)
Skip(vec, n) == IF n >= Len(vec) THEN <<>> ELSE SubSeq(vec, n + 1, Len(vec))

SeqsUpTo(S, n) == UNION {[1..k -> S] : k \in 0..n}

-----------------------------------------------------------------------------
(* reqwest::Method, as far as the program uses it *)

GET == "GET"
POST == "POST"
PUT == "PUT"
DELETE == "DELETE"

Methods == {GET, POST, PUT, DELETE}

MethodOrder == <<GET, POST, PUT, DELETE>>

\* the Vec<Method> holding the methods of S in the order the code pushes them
MethodVec(S) == SelectSeq(MethodOrder, LAMBDA m : m \in S)

-----------------------------------------------------------------------------
(* Result<T>: Ok(val), Err(err), or a panic unwinding out of the call *)

Ok(v) == [kind |-> "Ok", val |-> Some(v), err |-> ""]
Err(e) == [kind |-> "Err", val |-> None, err |-> e]
Panic(e) == [kind |-> "Panic", val |-> None, err |-> e]

-----------------------------------------------------------------------------
(* str::trim on a sequence of characters *)

IsWhitespace(c) == c = " "

RECURSIVE TrimStart(_)
TrimStart(s) ==
    IF s # <<>> /\ IsWhitespace(Head(s)) THEN TrimStart(Tail(s)) ELSE s

RECURSIVE TrimEnd(_)
TrimEnd(s) ==
    IF s # <<>> /\ IsWhitespace(s[Len(s)])
    THEN TrimEnd(SubSeq(s, 1, Len(s) - 1))
    ELSE s

Trim(s) == TrimEnd(TrimStart(s))

-----------------------------------------------------------------------------
(* EdmType and its parser *)

EdmType ==
    {"Null", "Binary", "Boolean", "Byte", "DateTime", "Decimal", "Double",
     "Single", "Guid", "Int16", "Int32", "Int64", "SByte", "String", "Time",
     "DateTimeOffset"}

\* a parser that falls back to a default variant instead of failing
EdmType_try_from_default(s) ==
    IF \E t \in EdmType : s = "Edm." \o t
    THEN Ok(CHOOSE t \in EdmType : s = "Edm." \o t)
    ELSE Ok("String")

EdmType_try_from(s) ==
    CASE s = "Edm.Null" -> Ok("Null")
      [] s = "Edm.Binary" -> Ok("Binary")
      [] s = "Edm.Boolean" -> Ok("Boolean")
      [] s = "Edm.Byte" -> Ok("Byte")
      [] s = "Edm.DateTime" -> Ok("DateTime")
      [] s = "Edm.Decimal" -> Ok("Decimal")
      [] s = "Edm.Double" -> Ok("Double")
      [] s = "Edm.Single" -> Ok("Single")
      [] s = "Edm.Guid" -> Ok("Guid")
      [] s = "Edm.Int16" -> Ok("Int16")
      [] s = "Edm.Int32" -> Ok("Int32")
      [] s = "Edm.Int64" -> Ok("Int64")
      [] s = "Edm.SByte" -> Ok("SByte")
      [] s = "Edm.String" -> Ok("String")
      [] s = "Edm.Time" -> Ok("Time")
      [] s = "Edm.DateTimeOffset" -> Ok("DateTimeOffset")
      [] OTHER -> Err("Unknown type")

-----------------------------------------------------------------------------
(* Property::try_from: one row of the reference table                      *)
(*                                                                         *)
(* A row node n is [tag, children, input, classes]: the text of each of    *)
(* its child nodes, the first <input> among its descendants (if any) with  *)
(* its name, data-type and data-key attributes, and the show* marker       *)
(* classes found among its descendants.                                    *)

UsizeModulus == 2 ^ UsizeBits

\* usize subtraction in a build without overflow checks
WrappingSub(a, b) == (a - b) % UsizeModulus

PropertyMethods(n) ==
    (IF "showget" \in n.classes THEN <<GET>> ELSE <<>>)
    \o (IF "showpost" \in n.classes THEN <<POST>> ELSE <<>>)
    \o (IF "showput" \in n.classes THEN <<PUT>> ELSE <<>>)
    \o (IF "showdelete" \in n.classes THEN <<DELETE>> ELSE <<>>)

\* lines 80-84: an empty trimmed text is no description
DescriptionOf(text) == IF Trim(text) = <<>> THEN None ELSE Some(Trim(text))

\* lines 98-107, once the input and the description child are found
PropertyFields(n, input, child) ==
    IF input.name = None
    THEN Err("could not find property name")
    ELSE IF input.data_type = None
    THEN Err("could not find property type")
    ELSE LET t == EdmType_try_from(input.data_type[1])
         IN  IF t.kind # "Ok"
             THEN Err("While parsing property")
             ELSE Ok([name |-> input.name[1],
                      edm_type |-> t.val[1],
                      description |-> DescriptionOf(child),
                      key |-> (input.data_key = Some("True")),
                      methods |-> PropertyMethods(n)])

\* mutant of DescriptionChild: the last child is taken for the description
DescriptionChildLast(n) == Nth(n.children, WrappingSub(Len(n.children), 1))

\* lines 77-79: children().nth(children().count() - 2)
DescriptionChild(n) == Nth(n.children, WrappingSub(Len(n.children), 2))

Property_try_from(n, checks) ==
    IF n.input = None
    THEN Err("could not find name and type of Property")
    ELSE IF checks /\ Len(n.children) < 2
    THEN Panic("attempt to subtract with overflow")
    ELSE IF DescriptionChild(n) = None
    THEN Err("could not find property description")
    ELSE PropertyFields(n, n.input[1], DescriptionChild(n)[1])

-----------------------------------------------------------------------------
(* fetch_endpoint_details: one detail page                                 *)
(*                                                                         *)
(* A page is [endpoint, serviceUri, referencetable, supportedmethods]:     *)
(* the text of the first element with id "endpoint" and of the first with  *)
(* id "serviceUri" (None when there is no such element), the child nodes   *)
(* of the first <tbody> of the element with id "referencetable" (None      *)
(* without the table, Some(None) without a tbody), and the value           *)
(* attribute of every element named "supportedmethods" (None without the   *)
(* attribute).                                                             *)

RecognisedMethod(v) == v \in {Some("GET"), Some("POST"), Some("PUT"), Some("DELETE")}

\* lines 178-188
SupportedMethods(controls) ==
    IF \E i \in DOMAIN controls : controls[i] # None /\ ~RecognisedMethod(controls[i])
    THEN Panic("Unrecognized method in Endpoint")
    ELSE Ok(Map(SelectSeq(controls, RecognisedMethod), LAMBDA v : v[1]))

\* lines 171-172: the first child node is skipped, the <tr> among the rest are kept
GivenRows(children) == SelectSeq(Skip(children, 1), LAMBDA c : c.tag = "tr")

\* line 173: the rows converted, in order
RowResults(children, checks) ==
    Map(GivenRows(children), LAMBDA r : Property_try_from(r, checks))

\* lines 174-177: partition, then unwrap each side
PartitionOk(results) ==
    Map(SelectSeq(results, LAMBDA r : r.kind = "Ok"), LAMBDA r : r.val[1])

PartitionErr(results) ==
    Map(SelectSeq(results, LAMBDA r : r.kind # "Ok"), LAMBDA r : r.err)

\* the rows the iterator hands to Property::try_from before the call returns
\* or unwinds: all of them, or those up to the first panic
RECURSIVE UntilPanic(_)
UntilPanic(results) ==
    IF results = <<>>
    THEN <<>>
    ELSE IF Head(results).kind = "Panic"
    THEN <<Head(results)>>
    ELSE <<Head(results)>> \o UntilPanic(Tail(results))

ReachesRows(page) ==
    /\ page.endpoint # None
    /\ page.serviceUri # None
    /\ page.referencetable # None
    /\ page.referencetable[1] # None

ConvertedRows(page, checks) ==
    IF ReachesRows(page)
    THEN UntilPanic(RowResults(page.referencetable[1][1], checks))
    ELSE <<>>

fetch_endpoint_details(page, checks) ==
    IF page.endpoint = None
    THEN Err("name of endpoint not found")
    ELSE IF page.serviceUri = None
    THEN Err("uri of endpoint not found")
    ELSE IF page.referencetable = None
    THEN Err("referencetable not found")
    ELSE IF page.referencetable[1] = None
    THEN Err("table body not found")
    ELSE LET results == RowResults(page.referencetable[1][1], checks)
             methods == SupportedMethods(page.supportedmethods)
         IN  IF \E i \in DOMAIN results : results[i].kind = "Panic"
             THEN Panic("attempt to subtract with overflow")
             ELSE IF methods.kind = "Panic"
             THEN methods
             ELSE Ok([name |-> page.endpoint[1],
                      uri |-> page.serviceUri[1],
                      properties |-> PartitionOk(results),
                      failed_properties |-> PartitionErr(results),
                      methods |-> methods.val[1]])

-----------------------------------------------------------------------------
(* transform.rs: the openapi values the synthesizer builds.  Fields the    *)
(* program always leaves None (summary, tags, enum_values, ...) are not    *)
(* carried.                                                                *)

Schema0 ==
    [ref_path |-> None, description |-> None, schema_type |-> None,
     format |-> None, required |-> None, items |-> None, properties |-> None]

RefSchema(path) == [Schema0 EXCEPT !.ref_path = Some(path)]

Response(description, schema) == [description |-> description, schema |-> schema]

ParamRef(path) ==
    [kind |-> "Ref", ref_path |-> path, name |-> "", location |-> "",
     required |-> None, schema |-> None, param_type |-> None, format |-> None,
     description |-> None]

Parameter(name, location, required, schema, param_type, format, description) ==
    [kind |-> "Parameter", ref_path |-> <<>>, name |-> name, location |-> location,
     required |-> required, schema |-> schema, param_type |-> param_type,
     format |-> format, description |-> description]

-----------------------------------------------------------------------------
(* build_operation *)

\* mutant of SuccessStatus: every method answers 200
SuccessStatusOk(method) == "200"

\* lines 44-50
SuccessStatus(method) ==
    CASE method = GET -> "200"
      [] method = POST -> "201"
      [] method = PUT -> "204"
      [] method = DELETE -> "200"

\* lines 51-62
SuccessSchema(method, details) ==
    IF method = DELETE
    THEN None
    ELSE Some(RefSchema(<<"#/definitions/">> \o details.name \o <<"Response">>))

\* line 79-91
ErrorResponse == Response("Error", Some(RefSchema(<<"#/definitions/", "Error">>)))

\* lines 43-91: the BTreeMap of responses, built by five inserts
Responses(method, details) ==
    Insert(
      Insert(
        Insert(
          Insert(
            Insert(EmptyMap, SuccessStatus(method),
                   Response("Command successful", SuccessSchema(method, details))),
            "400", Response("Bad request (syntax invalid)", None)),
          "401", Response("Unauthorized", None)),
        "404", Response("Not found", None)),
      "500", ErrorResponse)

\* lines 93-101
QueryParameters(method) ==
    IF method = GET
    THEN <<ParamRef(<<"#/parameters/", "filter">>), ParamRef(<<"#/paramters/", "select">>)>>
    ELSE <<>>

\* lines 102-106
DivisionParameter(details) ==
    IF Contains(details.uri, "{division}")
    THEN <<ParamRef(<<"#/parameters/", "Division">>)>>
    ELSE <<>>

\* lines 107-133
BodyParameter(method, details) ==
    IF method = POST \/ method = PUT
    THEN <<Parameter("body", "body", Some(TRUE),
                     Some(RefSchema(<<"#/definitions/">> \o details.name
                                    \o <<IF method = POST THEN "Post" ELSE "Put">>)),
                     None, None, None)>>
    ELSE <<>>

\* lines 134-145
IdParameter(method) ==
    IF method = PUT \/ method = DELETE
    THEN <<Parameter("id", "path", Some(TRUE), None, Some("string"), None,
                     Some("ID of the entity to modify/delete"))>>
    ELSE <<>>

OperationParameters(method, details) ==
    QueryParameters(method) \o DivisionParameter(details)
    \o BodyParameter(method, details) \o IdParameter(method)

build_operation(method, details) ==
    IF Contains(details.methods, method)
    THEN Some([responses |-> Responses(method, details),
               parameters |-> Some(OperationParameters(method, details))])
    ELSE None

-----------------------------------------------------------------------------
(* build_paths *)

\* mutant of ItemUrl: the item suffix is left out
ItemUrlBare(uri) == uri

\* line 13: format!("{}(guid'{{id}}')", endpoint.uri)
ItemUrl(uri) == uri \o <<"(guid'{id}')">>

ItemOperations(endpoint) ==
    [get |-> None, post |-> None,
     put |-> build_operation(PUT, endpoint),
     delete |-> build_operation(DELETE, endpoint)]

CollectionOperations(endpoint) ==
    [get |-> build_operation(GET, endpoint),
     post |-> build_operation(POST, endpoint),
     put |-> None, delete |-> None]

\* lines 12-36: the body of the loop
InsertPaths(paths, endpoint) ==
    LET withItem ==
            IF Contains(endpoint.methods, PUT) \/ Contains(endpoint.methods, DELETE)
            THEN Insert(paths, ItemUrl(endpoint.uri), ItemOperations(endpoint))
            ELSE paths
    IN  IF Contains(endpoint.methods, GET) \/ Contains(endpoint.methods, POST)
        THEN Insert(withItem, endpoint.uri, CollectionOperations(endpoint))
        ELSE withItem

RECURSIVE FoldPaths(_, _)
FoldPaths(paths, eps) ==
    IF eps = <<>> THEN paths ELSE FoldPaths(InsertPaths(paths, Head(eps)), Tail(eps))

build_paths(eps) == FoldPaths(EmptyMap, eps)

-----------------------------------------------------------------------------
(* The type mapper *)

OpenApiType_new(type_, format) == [type_ |-> type_, format |-> format]

OpenApiType_from(edm) ==
    CASE edm = "Null" -> OpenApiType_new("null", None)
      [] edm = "Binary" -> OpenApiType_new("string", Some("edm-binary"))
      [] edm = "Boolean" -> OpenApiType_new("boolean", None)
      [] edm = "Byte" -> OpenApiType_new("string", Some("edm-byte"))
      [] edm = "DateTime" -> OpenApiType_new("string", Some("edm-datetime"))
      [] edm = "Decimal" -> OpenApiType_new("string", Some("edm-decimal"))
      [] edm = "Double" -> OpenApiType_new("number", Some("double"))
      [] edm = "Single" -> OpenApiType_new("number", Some("float"))
      [] edm = "Guid" -> OpenApiType_new("string", Some("guid"))
      [] edm = "Int16" -> OpenApiType_new("integer", Some("int16"))
      [] edm = "Int32" -> OpenApiType_new("integer", Some("int32"))
      [] edm = "Int64" -> OpenApiType_new("integer", Some("int64"))
      [] edm = "SByte" -> OpenApiType_new("integer", Some("edm-int8"))
      [] edm = "String" -> OpenApiType_new("string", None)
      [] edm = "Time" -> OpenApiType_new("string", Some("edm-time"))
      [] edm = "DateTimeOffset" -> OpenApiType_new("string", Some("edm-date-time-offset"))

-----------------------------------------------------------------------------
(* build_definition *)

\* lines 203-213
PropertySchema(p) ==
    [Schema0 EXCEPT !.description = p.description,
                    !.schema_type = Some(OpenApiType_from(p.edm_type).type_),
                    !.format = OpenApiType_from(p.edm_type).format]

\* BTreeMap::from_iter: the entries inserted in order, a later one replacing
\* an earlier one with the same key
RECURSIVE FromIter(_, _)
FromIter(m, ps) ==
    IF ps = <<>>
    THEN m
    ELSE FromIter(Insert(m, Head(ps).name, PropertySchema(Head(ps))), Tail(ps))

\* lines 200-214
DefinitionProperties(method, endpoint) ==
    FromIter(EmptyMap,
             SelectSeq(endpoint.properties, LAMBDA p : Contains(p.methods, method)))

\* mutant of RequiredProperties: only the keys that apply to the method
RequiredApplicable(method, endpoint) ==
    IF method = POST \/ method = PUT
    THEN Some(Map(SelectSeq(endpoint.properties,
                            LAMBDA p : p.key /\ Contains(p.methods, method)),
                  LAMBDA p : p.name))
    ELSE None

\* lines 216-220
RequiredProperties(method, endpoint) ==
    IF method = POST \/ method = PUT
    THEN Some(Map(SelectSeq(endpoint.properties, LAMBDA p : p.key), LAMBDA p : p.name))
    ELSE None

\* lines 221-230
ObjectSchema(method, endpoint) ==
    [Schema0 EXCEPT !.schema_type = Some("object"),
                    !.required = RequiredProperties(method, endpoint),
                    !.properties = Some(DefinitionProperties(method, endpoint))]

\* lines 233-243: the `d` object's properties
ResultsEnvelope(schema) ==
    Insert(EmptyMap, "results",
           [Schema0 EXCEPT !.schema_type = Some("array"), !.items = Some(schema)])

\* lines 244-253
DEnvelope(schema) ==
    [Schema0 EXCEPT !.schema_type = Some("object"),
                    !.properties = Some(ResultsEnvelope(schema))]

\* mutant of ResponseEnvelope: the required list is left out
ResponseEnvelopeOpen(schema) ==
    [Schema0 EXCEPT !.schema_type = Some("object"),
                    !.properties = Some(Insert(EmptyMap, "d", DEnvelope(schema)))]

\* lines 254-264
ResponseEnvelope(schema) ==
    [Schema0 EXCEPT !.schema_type = Some("object"),
                    !.required = Some(<<"d">>),
                    !.properties = Some(Insert(EmptyMap, "d", DEnvelope(schema)))]

build_definition(method, endpoint) ==
    IF method = GET
    THEN ResponseEnvelope(ObjectSchema(method, endpoint))
    ELSE ObjectSchema(method, endpoint)

-----------------------------------------------------------------------------
(* build_definitions, build_parameters, the security tables, build_spec *)

\* an Error schema that holds code and message itself, without the error member
build_error_schema_flat ==
    LET code == [Schema0 EXCEPT !.schema_type = Some("string")]
        value == [Schema0 EXCEPT !.description = Some("Error cause"),
                                 !.schema_type = Some("string")]
        message == [Schema0 EXCEPT !.schema_type = Some("object"),
                                   !.properties = Some(Insert(EmptyMap, "value", value))]
    IN  [Schema0 EXCEPT !.schema_type = Some("object"),
                        !.properties =
                            Some(Insert(Insert(EmptyMap, "code", code),
                                        "message", message))]

\* lines 288-342
build_error_schema ==
    LET code == [Schema0 EXCEPT !.schema_type = Some("string")]
        value == [Schema0 EXCEPT !.description = Some("Error cause"),
                                 !.schema_type = Some("string")]
        message == [Schema0 EXCEPT !.schema_type = Some("object"),
                                   !.properties = Some(Insert(EmptyMap, "value", value))]
        error == [Schema0 EXCEPT !.schema_type = Some("object"),
                                 !.properties =
                                     Some(Insert(Insert(EmptyMap, "code", code),
                                                 "message", message))]
    IN  [Schema0 EXCEPT !.schema_type = Some("object"),
                        !.properties = Some(Insert(EmptyMap, "error", error))]

\* lines 275-283: the body of the loop
InsertDefinitions(definitions, endpoint) ==
    LET d1 == IF Contains(endpoint.methods, GET) \/ Contains(endpoint.methods, POST)
              THEN Insert(definitions, endpoint.name \o <<"Response">>,
                          build_definition(GET, endpoint))
              ELSE definitions
        d2 == IF Contains(endpoint.methods, POST)
              THEN Insert(d1, endpoint.name \o <<"Post">>, build_definition(POST, endpoint))
              ELSE d1
    IN  IF Contains(endpoint.methods, PUT)
        THEN Insert(d2, endpoint.name \o <<"Put">>, build_definition(PUT, endpoint))
        ELSE d2

RECURSIVE FoldDefinitions(_, _)
FoldDefinitions(definitions, eps) ==
    IF eps = <<>>
    THEN definitions
    ELSE FoldDefinitions(InsertDefinitions(definitions, Head(eps)), Tail(eps))

build_definitions(eps) ==
    FoldDefinitions(Insert(EmptyMap, <<"Error">>, build_error_schema), eps)

build_parameters(eps) ==
    Insert(
      Insert(
        Insert(EmptyMap, <<"Division">>,
               Parameter("division", "path", Some(TRUE), None, Some("integer"),
                         Some("int32"), None)),
        <<"filter">>,
        Parameter("$filter", "query", Some(FALSE), None, Some("string"),
                  Some("$filter"), None)),
      <<"select">>,
      Parameter("$select", "query", Some(FALSE), None, Some("string"),
                Some("$select"), None))

build_security_definitions ==
    Insert(EmptyMap, "ApiKey",
           [kind |-> "ApiKey", name |-> "Authorization", location |-> "header"])

build_security_requirements == <<Insert(EmptyMap, "ApiKey", <<>>)>>

build_spec(eps) ==
    [swagger |-> "2.0",
     host |-> Some("start.exactonline.nl"),
     base_path |-> Some("/"),
     paths |-> build_paths(eps),
     definitions |-> Some(build_definitions(eps)),
     parameters |-> Some(build_parameters(eps)),
     security_definitions |-> Some(build_security_definitions),
     security |-> Some(build_security_requirements)]

-----------------------------------------------------------------------------
(* The documents the run may meet *)

Row(children, input, classes) ==
    [tag |-> "tr", children |-> children, input |-> input, classes |-> classes]

\* a whitespace text node between the rows of the table body
TextNode == [tag |-> "text", children |-> <<>>, input |-> None, classes |-> {}]

\* the header row: cells, no input control
HeaderRow == Row(<<<<"N">>, <<"D">>, <<>>>>, None, {})

Input(name, data_type, data_key) ==
    Some([name |-> name, data_type |-> data_type, data_key |-> data_key])

InputID == Input(Some("ID"), Some("Edm.Int32"), Some("True"))
InputName == Input(Some("Name"), Some("Edm.String"), Some("False"))

InputSet ==
    {None, InputID, InputName,
     Input(None, Some("Edm.Int32"), Some("True")),
     Input(Some("ID"), None, None),
     Input(Some("ID"), Some("Edm.Foo"), None),
     Input(Some(""), Some("Edm.Guid"), Some("true"))}

DescTexts == {<<>>, <<" ">>, <<" ", "d", " ">>}

\* k child nodes, the description text t where the code looks for it
\* (the only child when k = 1)
ChildrenWith(k, t) ==
    [i \in 1..k |-> IF i = k - 1 \/ k = 1 THEN t ELSE <<"x">>]

ClassSets ==
    {{}, {"showget"}, {"showpost", "showput"},
     {"showget", "showpost", "showput", "showdelete"}}

RowSet ==
    {Row(ChildrenWith(k, t), InputID, {"showget", "showpost"}) :
        k \in 1..MaxChildren, t \in DescTexts}
    \cup {Row(ChildrenWith(3, <<"d">>), in, {"showget"}) : in \in InputSet}
    \cup {Row(ChildrenWith(3, <<"d">>), InputName, cl) : cl \in ClassSets}
    \cup {Row(<<>>, None, {})}

Tbody(lead, rows) == (IF lead THEN <<TextNode>> ELSE <<>>) \o <<HeaderRow>> \o rows

Page(endpoint, serviceUri, referencetable, supportedmethods) ==
    [endpoint |-> endpoint, serviceUri |-> serviceUri,
     referencetable |-> referencetable, supportedmethods |-> supportedmethods]

ControlValues ==
    {None, Some("GET"), Some("POST"), Some("PUT"), Some("DELETE"), Some("PATCH")}

GoodRow == Row(ChildrenWith(3, <<"d">>), InputID, {"showget", "showpost"})

\* pages that vary the rows of the table, and pages that vary everything else
DetailPages ==
    {Page(Some(<<"A">>), Some(<<"/a">>), Some(Some(Tbody(FALSE, rows))),
          <<Some("GET"), Some("POST")>>) :
        rows \in SeqsUpTo(RowSet, MaxRows)}
    \cup
    {Page(n, u, t, c) :
        n \in {None, Some(<<>>), Some(<<"A">>)},
        u \in {None, Some(<<>>), Some(<<"/a">>)},
        t \in {None, Some(None), Some(Some(<<>>)),
               Some(Some(Tbody(TRUE, <<GoodRow>>))),
               Some(Some(Tbody(FALSE, <<GoodRow>>)))},
        c \in SeqsUpTo(ControlValues, MaxControls)}

\* the pages of a run over several urls
RunPages ==
    {Page(Some(<<"A">>), Some(<<"/a">>), Some(Some(Tbody(FALSE, <<GoodRow>>))),
          <<Some("GET"), Some("POST")>>),
     Page(Some(<<"B">>), Some(<<"/", "{division}", "/b">>),
          Some(Some(Tbody(FALSE, <<GoodRow>>))), <<Some("PUT"), Some("DELETE")>>),
     Page(Some(<<"C">>), Some(<<"/c">>), Some(Some(Tbody(FALSE, <<GoodRow>>))),
          <<Some("GET"), Some("PATCH")>>),
     Page(None, Some(<<"/d">>), Some(Some(Tbody(FALSE, <<GoodRow>>))), <<Some("GET")>>),
     Page(Some(<<"E">>), Some(<<"/e">>),
          Some(Some(Tbody(FALSE, <<Row(ChildrenWith(1, <<"d">>), InputID, {})>>))),
          <<Some("GET")>>)}

Runs == UNION {[1..k -> RunPages] : k \in 2..MaxPages}

-----------------------------------------------------------------------------
(* main *)

Init ==
    /\ overflow_checks \in BOOLEAN
    /\ pages \in {<<p>> : p \in DetailPages} \cup Runs
    /\ pc = "fetch"
    /\ next_page = 1
    /\ outcomes = <<>>
    /\ row_results = <<>>
    /\ endpoints = <<>>
    /\ spec = None
    /\ reordered = <<>>
    /\ respec = None
    /\ links = <<>>
    /\ urls = None
    /\ data_types = <<>>
    /\ edm_types = <<>>
    /\ openapi_types = <<>>

\* main.rs lines 19-27: the next url goes through fetch_endpoint_details; .ok()
\* drops an Err, an Ok value is collected, a panic unwinds out of main
FetchDetails ==
    /\ pc = "fetch"
    /\ next_page <= Len(pages)
    /\ LET r == fetch_endpoint_details(pages[next_page], overflow_checks)
       IN  /\ outcomes' = Append(outcomes, r)
           /\ row_results' = Append(row_results,
                                    ConvertedRows(pages[next_page], overflow_checks))
           /\ IF r.kind = "Panic"
              THEN /\ pc' = "aborted"
                   /\ UNCHANGED <<next_page, endpoints>>
              ELSE /\ endpoints' = IF r.kind = "Ok"
                                   THEN Append(endpoints, r.val[1])
                                   ELSE endpoints
                   /\ next_page' = next_page + 1
                   /\ pc' = IF next_page = Len(pages) THEN "synth" ELSE "fetch"
    /\ UNCHANGED <<pages, overflow_checks, spec, reordered, respec,
                   links, urls, data_types, edm_types, openapi_types>>

\* main.rs line 29
BuildSpec ==
    /\ pc = "synth"
    /\ spec' = Some(build_spec(endpoints))
    /\ pc' = "done"
    /\ UNCHANGED <<pages, overflow_checks, next_page, outcomes, row_results, endpoints,
                   reordered, respec, links, urls, data_types, edm_types, openapi_types>>

Next == FetchDetails \/ BuildSpec

Spec == Init /\ [][Next]_vars

-----------------------------------------------------------------------------
(* Synthesis on its own: build_spec is public and takes any collection.    *)

Property(name, edm_type, description, key, methods) ==
    [name |-> name, edm_type |-> edm_type, description |-> description,
     key |-> key, methods |-> MethodVec(methods)]

Endpoint(name, uri, properties, methods) ==
    [name |-> name, uri |-> uri, properties |-> properties,
     failed_properties |-> <<>>, methods |-> MethodVec(methods)]

PropMethodSets == {{}, {GET}, {GET, POST}, {PUT}, Methods}

PropSet ==
    {Property("ID", "Int32", None, k, ms) : k \in BOOLEAN, ms \in PropMethodSets}
    \cup {Property("Name", "String", Some(<<"d">>), k, ms) :
            k \in BOOLEAN, ms \in PropMethodSets}

KeyID == Property("ID", "Guid", None, TRUE, Methods)
PlainName == Property("Name", "String", Some(<<"d">>), FALSE, {GET, POST})

\* one endpoint, every property list
RichEndpoints ==
    {Endpoint(<<"A">>, <<"/a">>, ps, ms) :
        ps \in SeqsUpTo(PropSet, MaxProps),
        ms \in {{GET}, {POST}, {PUT}, Methods}}

\* one endpoint, every method set
MethodEndpoints ==
    {Endpoint(<<"A">>, u, <<KeyID, PlainName>>, ms) :
        u \in {<<"/a">>, <<"/", "{division}", "/a">>},
        ms \in SUBSET Methods}

\* endpoints that may share a name, a uri, or the uri of another's items
SharingEndpoints ==
    {Endpoint(n, u, ps, ms) :
        n \in {<<"A">>, <<"B">>},
        u \in {<<"/a">>, <<"/a", "(guid'{id}')">>},
        ps \in {<<KeyID>>, <<PlainName>>},
        ms \in {{GET}, {POST, PUT}, Methods}}

Collections ==
    {<<e>> : e \in RichEndpoints \cup MethodEndpoints}
    \cup SeqsUpTo(SharingEndpoints, MaxEndpoints)

\* synthesis does no arithmetic: the build's overflow checks play no part
InitSynth ==
    /\ overflow_checks = FALSE
    /\ pages = <<>>
    /\ pc = "synth"
    /\ next_page = 1
    /\ outcomes = <<>>
    /\ row_results = <<>>
    /\ endpoints \in Collections
    /\ spec = None
    /\ reordered = <<>>
    /\ respec = None
    /\ links = <<>>
    /\ urls = None
    /\ data_types = <<>>
    /\ edm_types = <<>>
    /\ openapi_types = <<>>

\* a caller that collected the same endpoints in another order
BuildSpecReordered ==
    /\ pc = "done"
    /\ \E f \in Permutations(1..Len(endpoints)) :
          /\ reordered' = [i \in 1..Len(endpoints) |-> endpoints[f[i]]]
          /\ respec' = Some(build_spec(reordered'))
    /\ pc' = "reordered"
    /\ UNCHANGED <<pages, overflow_checks, next_page, outcomes, row_results, endpoints, spec,
                   links, urls, data_types, edm_types, openapi_types>>

NextSynth == BuildSpec \/ BuildSpecReordered

SpecSynth == InitSynth /\ [][NextSynth]_vars

-----------------------------------------------------------------------------
(* What the claims speak of *)

OperationOf(item, m) ==
    CASE m = GET -> item.get
      [] m = POST -> item.post
      [] m = PUT -> item.put
      [] m = DELETE -> item.delete

\* the methods a path entry carries an operation for
Carried(item) == {m \in Methods : OperationOf(item, m) # None}

\* the operations of a document: the path key and the method of each
Emitted(doc) ==
    {km \in (DOMAIN doc.paths) \X Methods : OperationOf(doc.paths[km[1]], km[2]) # None}

OperationAt(doc, km) == OperationOf(doc.paths[km[1]], km[2])[1]

MethodSet(endpoint) == ToSet(endpoint.methods)

KeyNames(endpoint) ==
    {endpoint.properties[i].name :
        i \in {j \in DOMAIN endpoint.properties : endpoint.properties[j].key}}

ApplicableNames(endpoint, m) ==
    {endpoint.properties[i].name :
        i \in {j \in DOMAIN endpoint.properties :
                 Contains(endpoint.properties[j].methods, m)}}

\* a later endpoint of the collection writes the same definition key
Replaced(i, ms) ==
    \E j \in DOMAIN endpoints :
        /\ j > i
        /\ endpoints[j].name = endpoints[i].name
        /\ MethodSet(endpoints[j]) \cap ms # {}

-----------------------------------------------------------------------------
(* C3: a single endpoint passed to build_spec.  Declaring only GET, paths  *)
(* has exactly one entry, at the bare uri, carrying only GET; declaring    *)
(* only PUT and DELETE, exactly one entry, at uri plus the item suffix,    *)
(* carrying exactly PUT and DELETE; declaring all four, two distinct       *)
(* entries; and no entry carries an operation the endpoint does not        *)
(* declare.                                                                *)
TheoremC3 ==
    (spec # None /\ Len(endpoints) = 1) =>
        LET e == endpoints[1]
            paths == spec[1].paths
            item == e.uri \o <<"(guid'{id}')">>
        IN  /\ MethodSet(e) = {GET} =>
                  /\ DOMAIN paths = {e.uri}
                  /\ Carried(paths[e.uri]) = {GET}
            /\ MethodSet(e) = {PUT, DELETE} =>
                  /\ DOMAIN paths = {item}
                  /\ Carried(paths[item]) = {PUT, DELETE}
            /\ MethodSet(e) = Methods => Cardinality(DOMAIN paths) = 2
            /\ \A k \in DOMAIN paths : Carried(paths[k]) \subseteq MethodSet(e)

WitnessC3 ==
    /\ spec # None
    /\ Len(endpoints) = 1
    /\ MethodSet(endpoints[1]) = Methods
    /\ DOMAIN spec[1].paths =
          {endpoints[1].uri, endpoints[1].uri \o <<"(guid'{id}')">>}

(* C4: build_spec yields the same paths, definitions and parameters, key   *)
(* sets and content under each key, for every permutation of the endpoint  *)
(* collection, also when two endpoints share a name or a uri.              *)
ClaimC4 ==
    respec # None =>
        /\ respec[1].paths = spec[1].paths
        /\ respec[1].definitions = spec[1].definitions
        /\ respec[1].parameters = spec[1].parameters

\* whether a reference path names an entry of the document's tables
Resolves(doc, ref) ==
    /\ ref # <<>>
    /\ CASE Head(ref) = "#/definitions/" -> Tail(ref) \in DOMAIN doc.definitions[1]
         [] Head(ref) = "#/parameters/" -> Tail(ref) \in DOMAIN doc.parameters[1]
         [] OTHER -> FALSE

\* the reference paths an operation emits
ResponseRefs(op) ==
    {op.responses[st].schema[1].ref_path[1] :
        st \in {x \in DOMAIN op.responses :
                  /\ op.responses[x].schema # None
                  /\ op.responses[x].schema[1].ref_path # None}}

ParameterRefs(op) ==
    {op.parameters[1][i].ref_path :
        i \in {j \in DOMAIN op.parameters[1] : op.parameters[1][j].kind = "Ref"}}
    \cup
    {op.parameters[1][i].schema[1].ref_path[1] :
        i \in {j \in DOMAIN op.parameters[1] :
                 /\ op.parameters[1][j].kind = "Parameter"
                 /\ op.parameters[1][j].schema # None
                 /\ op.parameters[1][j].schema[1].ref_path # None}}

(* C5: the document is internally consistent: every reference emitted      *)
(* inside an operation (a schema reference in a response or a body         *)
(* parameter, a shared-parameter reference in the parameter list) names a  *)
(* key of the document's definitions table, respectively parameters table. *)
ClaimC5 ==
    spec # None =>
        \A km \in Emitted(spec[1]) :
            \A ref \in ResponseRefs(OperationAt(spec[1], km))
                       \cup ParameterRefs(OperationAt(spec[1], km)) :
                Resolves(spec[1], ref)

(* C8: for every POST-capable endpoint the required list of its {Name}Post *)
(* definition is exactly the set of the endpoint's key properties,         *)
(* whatever the number of properties and their method applicability, its   *)
(* properties being the POST-applicable ones; {Name}Put is built the same  *)
(* way from the PUT-applicable properties.  (When endpoints share a name   *)
(* the one definition under that key is the last such endpoint's.)         *)
TheoremC8 ==
    spec # None =>
        \A i \in DOMAIN endpoints : \A m \in {POST, PUT} :
            (m \in MethodSet(endpoints[i]) /\ ~Replaced(i, {m})) =>
                LET e == endpoints[i]
                    key == e.name \o <<IF m = POST THEN "Post" ELSE "Put">>
                    definitions == spec[1].definitions[1]
                IN  /\ key \in DOMAIN definitions
                    /\ definitions[key].schema_type = Some("object")
                    /\ definitions[key].required # None
                    /\ ToSet(definitions[key].required[1]) = KeyNames(e)
                    /\ definitions[key].properties # None
                    /\ DOMAIN definitions[key].properties[1] = ApplicableNames(e, m)

WitnessC8 ==
    /\ spec # None
    /\ Len(endpoints) = 1
    /\ POST \in MethodSet(endpoints[1])
    /\ Len(endpoints[1].properties) >= 2
    /\ KeyNames(endpoints[1]) \ ApplicableNames(endpoints[1], POST) # {}
    /\ KeyNames(endpoints[1]) \cap ApplicableNames(endpoints[1], POST) # {}
    /\ ToSet(spec[1].definitions[1][endpoints[1].name \o <<"Post">>].required[1])
          = KeyNames(endpoints[1])

\* the parts of a {Name}Response definition
DObject(response) == response.properties[1]["d"]
ResultsArray(response) == DObject(response).properties[1]["results"]

ResponseShape(response, e) ==
    /\ response.schema_type = Some("object")
    /\ DOMAIN response.properties[1] = {"d"}
    /\ DObject(response).schema_type = Some("object")
    /\ DOMAIN DObject(response).properties[1] = {"results"}
    /\ ResultsArray(response).schema_type = Some("array")
    /\ ResultsArray(response).items # None
    /\ ResultsArray(response).items[1].properties # None
    /\ DOMAIN ResultsArray(response).items[1].properties[1] = ApplicableNames(e, GET)

(* C9 as claimed: for every endpoint supporting GET or POST, definitions   *)
(* holds {Name}Response, the outer object and the `d` object both marked   *)
(* as requiring `d`, and d.results an array whose item schema lists the    *)
(* endpoint's GET-applicable properties.                                   *)
ClaimC9 ==
    spec # None =>
        \A i \in DOMAIN endpoints :
            (MethodSet(endpoints[i]) \cap {GET, POST} # {} /\ ~Replaced(i, {GET, POST})) =>
                LET key == endpoints[i].name \o <<"Response">>
                    definitions == spec[1].definitions[1]
                IN  /\ key \in DOMAIN definitions
                    /\ ResponseShape(definitions[key], endpoints[i])
                    /\ definitions[key].required = Some(<<"d">>)
                    /\ DObject(definitions[key]).required = Some(<<"d">>)

(* C9 as amended: for every endpoint supporting GET or POST, definitions   *)
(* holds {Name}Response (the last such endpoint's when several share the   *)
(* name); only the outer object is marked as requiring `d`, the `d`        *)
(* object carries no required list; d.results is an array whose item       *)
(* schema lists the endpoint's GET-applicable properties.                  *)
TheoremC9 ==
    spec # None =>
        \A i \in DOMAIN endpoints :
            (MethodSet(endpoints[i]) \cap {GET, POST} # {} /\ ~Replaced(i, {GET, POST})) =>
                LET key == endpoints[i].name \o <<"Response">>
                    definitions == spec[1].definitions[1]
                IN  /\ key \in DOMAIN definitions
                    /\ ResponseShape(definitions[key], endpoints[i])
                    /\ definitions[key].required = Some(<<"d">>)
                    /\ DObject(definitions[key]).required = None

WitnessC9 ==
    /\ spec # None
    /\ \E i \in DOMAIN endpoints :
          /\ MethodSet(endpoints[i]) = {POST}
          /\ ApplicableNames(endpoints[i], GET) # {}
          /\ ApplicableNames(endpoints[i], GET) # ToSet(Map(endpoints[i].properties,
                                                            LAMBDA p : p.name))
          /\ ~Replaced(i, {GET, POST})
          /\ ResponseShape(spec[1].definitions[1][endpoints[i].name \o <<"Response">>],
                           endpoints[i])

(* C10: every emitted operation has the same response set shape: one       *)
(* success response, its status fixed by the method (GET 200, POST 201,    *)
(* PUT 204, DELETE 200), with a schema reference unless the method is      *)
(* DELETE, and responses 400, 401, 404 and 500, the 500 one referencing    *)
(* the shared Error schema: five responses in all.                         *)
TheoremC10 ==
    spec # None =>
        \A km \in Emitted(spec[1]) :
            LET responses == OperationAt(spec[1], km).responses
                success == CASE km[2] = GET -> "200"
                             [] km[2] = POST -> "201"
                             [] km[2] = PUT -> "204"
                             [] km[2] = DELETE -> "200"
            IN  /\ DOMAIN responses = {success, "400", "401", "404", "500"}
                /\ Cardinality(DOMAIN responses) = 5
                /\ (km[2] = DELETE) <=> (responses[success].schema = None)
                /\ km[2] # DELETE => responses[success].schema[1].ref_path # None
                /\ \A st \in {"400", "401", "404"} : responses[st].schema = None
                /\ responses["500"].schema # None
                /\ responses["500"].schema[1].ref_path = Some(<<"#/definitions/", "Error">>)

WitnessC10 ==
    /\ spec # None
    /\ \E km \in Emitted(spec[1]) :
          /\ km[2] = DELETE
          /\ OperationAt(spec[1], km).responses["200"].schema = None
          /\ Cardinality(DOMAIN OperationAt(spec[1], km).responses) = 5
    /\ \E km \in Emitted(spec[1]) :
          /\ km[2] = PUT
          /\ OperationAt(spec[1], km).responses["204"].schema # None

\* the parameter list C11 describes for an operation of endpoint e
ClaimedParameters(m, e) ==
    (IF m = GET
     THEN <<ParamRef(<<"#/parameters/", "filter">>), ParamRef(<<"#/parameters/", "select">>)>>
     ELSE <<>>)
    \o (IF \E i \in DOMAIN e.uri : e.uri[i] = "{division}"
        THEN <<ParamRef(<<"#/parameters/", "Division">>)>>
        ELSE <<>>)
    \o (IF m \in {POST, PUT}
        THEN <<Parameter("body", "body", Some(TRUE),
                         Some(RefSchema(<<"#/definitions/">> \o e.name
                                        \o <<IF m = POST THEN "Post" ELSE "Put">>)),
                         None, None, None)>>
        ELSE <<>>)
    \o (IF m \in {PUT, DELETE}
        THEN <<Parameter("id", "path", Some(TRUE), None, Some("string"), None,
                         Some("ID of the entity to modify/delete"))>>
        ELSE <<>>)

\* the key under which an endpoint's operation for method m is emitted
PathKey(m, e) == IF m \in {PUT, DELETE} THEN e.uri \o <<"(guid'{id}')">> ELSE e.uri

(* C11: the parameter list of every emitted operation is, in this order:   *)
(* for GET the shared filter parameter then the shared field-selection     *)
(* parameter; with {division} in the uri the shared division parameter;    *)
(* for POST and PUT a required body parameter referencing {Name}Post       *)
(* respectively {Name}Put; for PUT and DELETE a required path parameter    *)
(* identifying the item; and nothing else.                                 *)
ClaimC11 ==
    spec # None =>
        \A km \in Emitted(spec[1]) :
            \E i \in DOMAIN endpoints :
                /\ km[2] \in MethodSet(endpoints[i])
                /\ km[1] = PathKey(km[2], endpoints[i])
                /\ OperationAt(spec[1], km).parameters
                      = Some(ClaimedParameters(km[2], endpoints[i]))

\* schema is an object holding a `code` string and a `message` object that
\* holds a `value` string, and nothing else
CodeAndMessage(schema) ==
    /\ schema.schema_type = Some("object")
    /\ schema.properties # None
    /\ DOMAIN schema.properties[1] = {"code", "message"}
    /\ schema.properties[1]["code"].schema_type = Some("string")
    /\ schema.properties[1]["message"].schema_type = Some("object")
    /\ schema.properties[1]["message"].properties # None
    /\ DOMAIN schema.properties[1]["message"].properties[1] = {"value"}
    /\ schema.properties[1]["message"].properties[1]["value"].schema_type = Some("string")

\* every emitted operation's 500 response refers to the Error definition
ErrorResponsesResolve(doc) ==
    \A km \in Emitted(doc) :
        LET responses == OperationAt(doc, km).responses
        IN  /\ "500" \in DOMAIN responses
            /\ responses["500"].schema # None
            /\ responses["500"].schema[1].ref_path = Some(<<"#/definitions/", "Error">>)
            /\ Resolves(doc, responses["500"].schema[1].ref_path[1])

(* C14 as stated: for every endpoint collection, the empty one included,   *)
(* definitions holds one shared Error schema that is an object with a      *)
(* `code` string field and a `message` object field containing a `value`   *)
(* string, and the 500 response's reference resolves to it.                *)
ClaimC14 ==
    spec # None =>
        /\ <<"Error">> \in DOMAIN spec[1].definitions[1]
        /\ CodeAndMessage(spec[1].definitions[1][<<"Error">>])
        /\ ErrorResponsesResolve(spec[1])

(* C14, amended: for every endpoint collection, the empty one included,    *)
(* definitions holds one shared Error schema that is an object with the    *)
(* single field `error`, itself an object with a `code` string field and   *)
(* a `message` object field containing a `value` string, and the 500       *)
(* response's reference of every operation resolves to it.                 *)
TheoremC14 ==
    spec # None =>
        /\ <<"Error">> \in DOMAIN spec[1].definitions[1]
        /\ LET Error == spec[1].definitions[1][<<"Error">>]
           IN  /\ Error.schema_type = Some("object")
               /\ Error.properties # None
               /\ DOMAIN Error.properties[1] = {"error"}
               /\ CodeAndMessage(Error.properties[1]["error"])
        /\ ErrorResponsesResolve(spec[1])

WitnessC14 ==
    /\ spec # None
    /\ Len(endpoints) = 2
    /\ Cardinality(Emitted(spec[1])) >= 2
    /\ DOMAIN spec[1].definitions[1][<<"Error">>].properties[1] = {"error"}
    /\ \A km \in Emitted(spec[1]) :
          OperationAt(spec[1], km).responses["500"].schema[1].ref_path
              = Some(<<"#/definitions/", "Error">>)

(* C15: in every {Name}Post and {Name}Put definition built by build_spec,  *)
(* each name in the required list is also a key of the definition's        *)
(* properties map, whatever the key flags and the method applicability of  *)
(* the properties (a key property that does not apply to the method is     *)
(* not required by that method's schema).                                  *)
ClaimC15 ==
    spec # None =>
        \A i \in DOMAIN endpoints : \A m \in {POST, PUT} :
            m \in MethodSet(endpoints[i]) =>
                LET key == endpoints[i].name \o <<IF m = POST THEN "Post" ELSE "Put">>
                    definition == spec[1].definitions[1][key]
                IN  /\ definition.required # None
                    /\ definition.properties # None
                    /\ ToSet(definition.required[1]) \subseteq DOMAIN definition.properties[1]

-----------------------------------------------------------------------------
(* Extraction *)

\* the rows of a page's table that follow its header row
DataRows(page) ==
    Skip(SelectSeq(page.referencetable[1][1], LAMBDA c : c.tag = "tr"), 1)

MethodsRecognised(page) ==
    \A k \in DOMAIN page.supportedmethods :
        page.supportedmethods[k] \in {None, Some("GET"), Some("POST"), Some("PUT"),
                                      Some("DELETE")}

\* the table body starts with its header row
HeaderFirst(page) ==
    /\ page.referencetable[1][1] # <<>>
    /\ page.referencetable[1][1][1].tag = "tr"

\* no row of the page is short of a second-to-last child
RowsWide(page) ==
    \A k \in DOMAIN page.referencetable[1][1] :
        page.referencetable[1][1][k].input # None =>
            Len(page.referencetable[1][1][k].children) >= 2

(* C1: in fetch_endpoint_details, for every reference table (any number of *)
(* rows after the header, good or malformed, rows with fewer than two      *)
(* children included), no row's conversion failure aborts the page: every  *)
(* row ends up once in properties or once in failed_properties, so         *)
(* |properties| = total rows - |failed_properties|.  Stated for the tables  *)
(* that start with their header row.                                       *)
ClaimC1 ==
    \A i \in DOMAIN outcomes :
        (ReachesRows(pages[i]) /\ HeaderFirst(pages[i]) /\ MethodsRecognised(pages[i])) =>
            /\ outcomes[i].kind = "Ok"
            /\ Len(outcomes[i].val[1].properties)
                  = Len(DataRows(pages[i])) - Len(outcomes[i].val[1].failed_properties)

(* C2: a page whose supported-methods control carries a value other than   *)
(* GET, POST, PUT or DELETE ends in a failure returned for that page, and  *)
(* the failure stops there: the run goes on to the other pages and         *)
(* reaches synthesis.  Stated for the runs over several pages.             *)
ClaimC2 ==
    \A i \in DOMAIN outcomes :
        (/\ Len(pages) >= 2
         /\ ReachesRows(pages[i])
         /\ RowsWide(pages[i])
         /\ ~MethodsRecognised(pages[i])) =>
            /\ outcomes[i].kind = "Err"
            /\ pc # "aborted"

EdmTokens ==
    {"Edm.Null", "Edm.Binary", "Edm.Boolean", "Edm.Byte", "Edm.DateTime",
     "Edm.Decimal", "Edm.Double", "Edm.Single", "Edm.Guid", "Edm.Int16",
     "Edm.Int32", "Edm.Int64", "Edm.SByte", "Edm.String", "Edm.Time",
     "Edm.DateTimeOffset"}

\* the row's input control has a name and a recognised data-type
NamedTyped(row) ==
    /\ row.input # None
    /\ row.input[1].name # None
    /\ row.input[1].data_type # None
    /\ row.input[1].data_type[1] \in EdmTokens

\* t is s without its leading and trailing whitespace
IsTrimOf(t, s) ==
    /\ t # <<>> => ~IsWhitespace(t[1]) /\ ~IsWhitespace(t[Len(t)])
    /\ \E a \in 0..Len(s) : \E b \in 0..(Len(s) - a) :
          /\ t = SubSeq(s, a + 1, Len(s) - b)
          /\ \A k \in 1..a : IsWhitespace(s[k])
          /\ \A k \in (Len(s) - b + 1)..Len(s) : IsWhitespace(s[k])

\* the description is the trimmed text, absent when that is empty
DescribedBy(description, text) ==
    IF description = None
    THEN IsTrimOf(<<>>, text)
    ELSE description[1] # <<>> /\ IsTrimOf(description[1], text)

\* the rows of page i that Property::try_from was given, and what it returned
RowAt(i, j) == GivenRows(pages[i].referencetable[1][1])[j]

ClaimC7 ==
    \A i \in DOMAIN outcomes :
        outcomes[i].kind = "Ok" =>
            /\ outcomes[i].val[1].name # <<>>
            /\ outcomes[i].val[1].uri # <<>>

-----------------------------------------------------------------------------
(* fetch_endpoint_urls: the overview page                                  *)
(*                                                                         *)
(* The overview document is the sequence of its elements in document       *)
(* order, each [name, href]: the element's name and the value of its href  *)
(* attribute (None without the attribute).  An href is a sequence of       *)
(* tokens, so that starts_with looks at the first token and the url is     *)
(* the base followed by the href.                                          *)

SPEC_BASE_URL == "https://start.exactonline.nl/docs/"
SPEC_DETAIL == "HlpRestAPIResourcesDetails.aspx"

starts_with(s, prefix) == Len(s) >= 1 /\ s[1] = prefix

\* Url::parse of the base followed by an href: the href lands in the path and
\* query of an absolute url, which the parser accepts
Url_parse(s) == Ok(s)

\* Vec::dedup: of consecutive equal elements only the first is kept
RECURSIVE Dedup(_)
Dedup(v) ==
    IF Len(v) <= 1
    THEN v
    ELSE LET rest == Dedup(Tail(v))
         IN  IF v[1] = rest[1] THEN rest ELSE <<v[1]>> \o rest

\* acquisition.rs lines 22-38, from the fetched document on
fetch_endpoint_urls(document) ==
    LET found == SelectSeq(document, LAMBDA node : node.name = "a" /\ node.href # None)
        detail == SelectSeq(found, LAMBDA node : starts_with(node.href[1], SPEC_DETAIL))
        parsed == Map(detail, LAMBDA node : Url_parse(<<SPEC_BASE_URL>> \o node.href[1]))
        collected == Map(SelectSeq(parsed, LAMBDA r : r.kind = "Ok"), LAMBDA r : r.val[1])
    IN  Ok(Dedup(collected))

Element(name, href) == [name |-> name, href |-> href]

Hrefs ==
    {<<SPEC_DETAIL, "?name=CRMAccounts">>,
     <<SPEC_DETAIL, "?name=SalesInvoiceSalesInvoices">>,
     <<"HlpRestAPIResources.aspx">>}

Elements ==
    {Element("a", Some(h)) : h \in Hrefs}
        \cup {Element("a", None), Element("div", Some(<<SPEC_DETAIL, "?name=CRMAccounts">>))}

Overviews == SeqsUpTo(Elements, MaxLinks)

InitUrls ==
    /\ overflow_checks = FALSE
    /\ pages = <<>>
    /\ pc = "overview"
    /\ next_page = 1
    /\ outcomes = <<>>
    /\ row_results = <<>>
    /\ endpoints = <<>>
    /\ spec = None
    /\ reordered = <<>>
    /\ respec = None
    /\ links \in Overviews
    /\ urls = None
    /\ data_types = <<>>
    /\ edm_types = <<>>
    /\ openapi_types = <<>>

\* main.rs line 18
FetchEndpointUrls ==
    /\ pc = "overview"
    /\ urls' = fetch_endpoint_urls(links).val
    /\ pc' = "listed"
    /\ UNCHANGED <<pages, overflow_checks, next_page, outcomes, row_results, endpoints, spec,
                   reordered, respec, links, data_types, edm_types, openapi_types>>

NextUrls == FetchEndpointUrls

SpecUrls == InitUrls /\ [][NextUrls]_vars

\* the link at position k of the overview qualifies: an <a> whose href starts
\* with the detail page's name
Qualifies(k) ==
    /\ links[k].name = "a"
    /\ links[k].href # None
    /\ starts_with(links[k].href[1], SPEC_DETAIL)

Target(k) == <<SPEC_BASE_URL>> \o links[k].href[1]

FirstSeen(u) ==
    CHOOSE k \in DOMAIN links :
        /\ Qualifies(k) /\ Target(k) = u
        /\ \A j \in 1..(k - 1) : ~(Qualifies(j) /\ Target(j) = u)

(* C12: fetch_endpoint_urls returns an ordered-unique sequence: whatever   *)
(* the positions of repeated links on the overview page, no url occurs     *)
(* twice in the result, the target of each qualifying link occurs in it,   *)
(* and the urls stand in the order in which they were first seen.          *)
ClaimC12 ==
    urls # None =>
        LET v == urls[1]
        IN  /\ \A i, j \in DOMAIN v : v[i] = v[j] => i = j
            /\ ToSet(v) = {Target(k) : k \in {k \in DOMAIN links : Qualifies(k)}}
            /\ \A i, j \in DOMAIN v : i < j => FirstSeen(v[i]) < FirstSeen(v[j])

-----------------------------------------------------------------------------
(* The two type conversions on their own: a column of data-type tokens     *)
(* goes through the EdmType parser (Property::try_from, acquisition.rs     *)
(* lines 101-103) and every parsed variant through the type mapper         *)
(* (build_definition, transform.rs line 203).                              *)

UnknownTokens == {"", "Int32", "edm.int32", "Edm.Int32 ", "Edm.Foo"}

TypeTokens == EdmTokens \cup UnknownTokens

TypeColumns == SeqsUpTo(TypeTokens, MaxTypes)

InitTypes ==
    /\ overflow_checks = FALSE
    /\ pages = <<>>
    /\ pc = "types"
    /\ next_page = 1
    /\ outcomes = <<>>
    /\ row_results = <<>>
    /\ endpoints = <<>>
    /\ spec = None
    /\ reordered = <<>>
    /\ respec = None
    /\ links = <<>>
    /\ urls = None
    /\ data_types \in TypeColumns
    /\ edm_types = <<>>
    /\ openapi_types = <<>>

\* acquisition.rs lines 101-102: the next token goes through try_into()
ParseType ==
    /\ pc = "types"
    /\ Len(edm_types) < Len(data_types)
    /\ edm_types' = Append(edm_types, EdmType_try_from(data_types[Len(edm_types) + 1]))
    /\ UNCHANGED <<pages, overflow_checks, pc, next_page, outcomes, row_results, endpoints,
                   spec, reordered, respec, links, urls, data_types, openapi_types>>

\* transform.rs line 203: the next parsed variant goes through OpenApiType::from;
\* a token the parser refused yields no property and so no call
MapType ==
    /\ pc = "types"
    /\ Len(openapi_types) < Len(edm_types)
    /\ LET r == edm_types[Len(openapi_types) + 1]
       IN  openapi_types' = Append(openapi_types,
                                   IF r.kind = "Ok"
                                   THEN Some(OpenApiType_from(r.val[1]))
                                   ELSE None)
    /\ UNCHANGED <<pages, overflow_checks, pc, next_page, outcomes, row_results, endpoints,
                   spec, reordered, respec, links, urls, data_types, edm_types>>

NextTypes == ParseType \/ MapType

SpecTypes == InitTypes /\ [][NextTypes]_vars

PrimitiveTypes == {"null", "string", "boolean", "number", "integer"}

(* C13: the parser accepts exactly the 16 known tokens, each as its own    *)
(* variant, and answers any other token with a parse failure (never a      *)
(* default variant, never a panic); the mapper gives every parsed variant  *)
(* one (primitive type, format) pair, the same pair whenever the same      *)
(* variant is mapped again.                                                *)
TheoremC13 ==
    /\ \A i \in DOMAIN edm_types :
          /\ edm_types[i].kind \in {"Ok", "Err"}
          /\ edm_types[i].kind = "Ok" <=> data_types[i] \in EdmTokens
          /\ edm_types[i].kind = "Ok" =>
                /\ edm_types[i].val[1] \in EdmType
                /\ data_types[i] = "Edm." \o edm_types[i].val[1]
    /\ \A i \in DOMAIN openapi_types :
          /\ openapi_types[i] # None <=> edm_types[i].kind = "Ok"
          /\ openapi_types[i] # None =>
                /\ openapi_types[i][1].type_ \in PrimitiveTypes
                /\ Len(openapi_types[i][1].format) <= 1
          /\ \A j \in DOMAIN openapi_types :
                edm_types[i] = edm_types[j] => openapi_types[i] = openapi_types[j]
    /\ Cardinality({"Edm." \o t : t \in EdmType}) = 16
    /\ {"Edm." \o t : t \in EdmType} = EdmTokens

\* a known token parsed and mapped, then an unknown token refused
WitnessC13 ==
    /\ Len(openapi_types) = 2
    /\ data_types[1] \in EdmTokens
    /\ data_types[2] \in UnknownTokens
    /\ openapi_types[1] # None
    /\ edm_types[2].kind = "Err"
    /\ openapi_types[2] = None

====
